---- MODULE Spec2Model ----
(***************************************************************************)
(* DATAez "Smart Research Assistant": the Streamlit session of src/app.py  *)
(* and the three backend classes it drives (DocumentProcessor,             *)
(* AIAssistant, QuestionGenerator).                                        *)
(*                                                                         *)
(* Texts are TLA+ strings; the Python string methods the code uses         *)
(* (strip, startswith, in, split, lower, slicing) are operators over       *)
(* them.  The language-model service and the uploaded file are the         *)
(* environment: each action draws the gateway's outcome and the file from  *)
(* small sets.  A Python call is a record: [raised |-> FALSE, value |-> v] *)
(* for a return, [raised |-> TRUE, error |-> msg] for an exception.        *)
(***************************************************************************)
EXTENDS Integers, Sequences, FiniteSets, TLC

VARIABLES
    document_text,           \* st.session_state.document_text
    document_name,           \* st.session_state.document_name
    summary,                 \* st.session_state.summary
    challenge_questions,     \* st.session_state.challenge_questions
    current_question_index,  \* st.session_state.current_question_index
    challenge_mode,          \* st.session_state.challenge_mode
    question_answered,       \* st.session_state.question_answered
    conversation_history,    \* st.session_state.conversation_history
    appended,                \* history variable: entries appended since the last clear
    asked_about,             \* history variable: per history entry, the document it was asked about
    last,                    \* history variable: what the last user action did
    call                     \* a direct call of a backend function: its inputs and its result

vars == <<document_text, document_name, summary, challenge_questions,
          current_question_index, challenge_mode, question_answered,
          conversation_history, appended, asked_about, last, call>>

session == <<document_text, document_name, summary, challenge_questions,
             current_question_index, challenge_mode, question_answered>>

-----------------------------------------------------------------------------
(* Bounds of the model.                                                    *)

\* appends to the history in one run of the history specification
MaxAppends == 12
\* questions asked (entries logged) per document in the session specification
MaxAsked == 5
\* largest num_questions a direct call of the question generator is given
MaxNumQuestions == 4

-----------------------------------------------------------------------------
(* Python results.                                                         *)

Return(v) == [raised |-> FALSE, value |-> v, error |-> ""]
Raise(msg) == [raised |-> TRUE, value |-> "", error |-> msg]

Min(a, b) == IF a <= b THEN a ELSE b
Max(a, b) == IF a >= b THEN a ELSE b

-----------------------------------------------------------------------------
(* Python str and list methods.                                            *)

\* s[i] for a 1-based i
Char(s, i) == SubSeq(s, i, i)

IsSpace(c) == c \in {" ", "\n", "\t", "\r"}

\* seq[-n:] for n > 0
LastN(seq, n) == SubSeq(seq, Max(1, Len(seq) - n + 1), Len(seq))
\* seq[:n] for n >= 0
FirstN(seq, n) == SubSeq(seq, 1, Min(n, Len(seq)))

RECURSIVE LStrip(_)
LStrip(s) == IF Len(s) > 0 /\ IsSpace(Char(s, 1))
             THEN LStrip(SubSeq(s, 2, Len(s))) ELSE s
RECURSIVE RStrip(_)
RStrip(s) == IF Len(s) > 0 /\ IsSpace(Char(s, Len(s)))
             THEN RStrip(SubSeq(s, 1, Len(s) - 1)) ELSE s
\* str.strip()
Strip(s) == RStrip(LStrip(s))

\* str.startswith(p)
StartsWith(s, p) == Len(s) >= Len(p) /\ SubSeq(s, 1, Len(p)) = p

\* str.find(p) as a 1-based position, 0 when p does not occur
Find(s, p) ==
    LET hits == {i \in 1..(Len(s) - Len(p) + 1) : SubSeq(s, i, i + Len(p) - 1) = p}
    IN IF hits = {} THEN 0 ELSE CHOOSE i \in hits : \A j \in hits : i <= j

\* p in s
Contains(s, p) == Find(s, p) # 0

\* str.split(sep, 1)
Split1(s, sep) ==
    LET i == Find(s, sep)
    IN IF i = 0 THEN <<s>>
       ELSE <<SubSeq(s, 1, i - 1), SubSeq(s, i + Len(sep), Len(s))>>

\* str.split(sep)
RECURSIVE Split(_, _)
Split(s, sep) ==
    LET i == Find(s, sep)
    IN IF i = 0 THEN <<s>>
       ELSE <<SubSeq(s, 1, i - 1)>> \o Split(SubSeq(s, i + Len(sep), Len(s)), sep)

\* str.replace(old, "")
RECURSIVE Remove(_, _)
Remove(s, old) ==
    LET i == Find(s, old)
    IN IF i = 0 THEN s
       ELSE SubSeq(s, 1, i - 1) \o Remove(SubSeq(s, i + Len(old), Len(s)), old)

UpperLetters == "ABCDEFGHIJKLMNOPQRSTUVWXYZ"
LowerLetters == "abcdefghijklmnopqrstuvwxyz"
LowerChar(c) ==
    LET i == Find(UpperLetters, c) IN IF i = 0 THEN c ELSE Char(LowerLetters, i)
\* str.lower()
RECURSIVE Lower(_)
Lower(s) == IF Len(s) = 0 THEN s
            ELSE LowerChar(Char(s, 1)) \o Lower(SubSeq(s, 2, Len(s)))

-----------------------------------------------------------------------------
(* AIAssistant: the conversation history.                                  *)

\* "Keep only last 10 exchanges"
HistoryCap == 10

Entry(question, answer) == [question |-> question, answer |-> answer]

\* a slip in the eviction: the newest entry is dropped instead of the oldest
add_to_conversation_history_popLast(history, question, answer) ==
    LET h == Append(history, Entry(question, answer))
    IN IF Len(h) > HistoryCap THEN SubSeq(h, 1, Len(h) - 1) ELSE h

\* AIAssistant.add_to_conversation_history on the list held in the session
add_to_conversation_history(history, question, answer) ==
    LET h == Append(history, Entry(question, answer))
    IN IF Len(h) > HistoryCap THEN Tail(h) ELSE h

\* AIAssistant.clear_conversation_history
clear_conversation_history == <<>>

-----------------------------------------------------------------------------
(* The tokenizer (tiktoken, cl100k_base) behind AIAssistant.encoding.      *)
(* encode refuses a text that holds a special token (its default           *)
(* disallowed_special="all") by raising ValueError; otherwise the model    *)
(* takes one token per character, and decode joins the tokens again.       *)

SpecialToken == "<|endoftext|>"
TokenizerError == "Encountered text corresponding to disallowed special token '<|endoftext|>'."

encode(text) ==
    IF Contains(text, SpecialToken) THEN Raise(TokenizerError)
    ELSE Return([i \in 1..Len(text) |-> Char(text, i)])

RECURSIVE decode(_)
decode(tokens) ==
    IF Len(tokens) = 0 THEN ""
    ELSE IF Len(tokens) = 1 THEN tokens[1]
    ELSE decode(SubSeq(tokens, 1, Len(tokens) \div 2))
         \o decode(SubSeq(tokens, Len(tokens) \div 2 + 1, Len(tokens)))

\* AIAssistant.count_tokens
count_tokens(text) ==
    LET tokens == encode(text)
    IN IF tokens.raised THEN tokens ELSE Return(Len(tokens.value))

\* a slip in the slice: tokens[-max_tokens:], the end of the document is kept
truncate_text_tail(text, max_tokens) ==
    IF encode(text).raised THEN encode(text)
    ELSE IF Len(encode(text).value) <= max_tokens THEN Return(text)
    ELSE Return(decode(SubSeq(encode(text).value,
                              Len(encode(text).value) - max_tokens + 1,
                              Len(encode(text).value))))

\* AIAssistant.truncate_text: no try block of its own, an encode error leaves it
truncate_text(text, max_tokens) ==
    LET tokens == encode(text)
    IN IF tokens.raised THEN tokens
       ELSE IF Len(tokens.value) <= max_tokens THEN Return(text)
       ELSE Return(decode(FirstN(tokens.value, max_tokens)))

\* the token ceilings the flows pass to truncate_text
SummaryBudget == 2500
AnswerBudget == 2500
EvaluationBudget == 2000
QuestionBudget == 2500

-----------------------------------------------------------------------------
(* The language-model service: client.chat.completions.create.  What the   *)
(* service does with a request is the environment's choice, handed to each *)
(* flow as gw: a failure (an exception with its message) or a reply text.  *)

GatewayFails(msg) == [ok |-> FALSE, content |-> "", error |-> msg]
GatewayReplies(text) == [ok |-> TRUE, content |-> text, error |-> ""]

ConnectionError == "Connection error."

\* response = self.client.chat.completions.create(...) for a prompt of the
\* given task; response.choices[0].message.content
create(task, gw) == IF gw.ok THEN Return(gw.content) ELSE Raise(gw.error)

\* What a flow did: its Python result, the number of requests it sent to the
\* service, the prompt it built (NoPrompt when it built none), the branch that
\* produced the result (path), what raised inside it (cause, when an except
\* clause took over), and the message it showed with st.error ("" for none).
Out(result, requests, prompt, path, shown) ==
    [raised |-> result.raised, value |-> result.value, error |-> result.error,
     requests |-> requests, prompt |-> prompt, path |-> path, cause |-> path,
     shown |-> shown]

NoPrompt == [task |-> "none"]
NoOut == Out(Return(""), 0, NoPrompt, "none", "")

-----------------------------------------------------------------------------
(* The shape the three AIAssistant flows share: truncate the document,     *)
(* build the prompt, send one request, interpret the reply.                *)

\* a try block from the request on; parsed is what the flow makes of the reply
requested(prompt, response, parsed) ==
    IF response.raised THEN Out(response, 1, prompt, "gateway", "")
    ELSE Out(Return(parsed), 1, prompt, "ok", "")

\* a try block from truncated_text on: an encode error leaves it before any
\* prompt is built
truncated(truncated_text, prompt, gw, parsed) ==
    IF truncated_text.raised THEN Out(truncated_text, 0, NoPrompt, "tokenizer", "")
    ELSE requested(prompt, create(prompt.task, gw), parsed)

\* except Exception as e: return <the flow's error value, built from str(e)>
except(r, error_value) ==
    IF r.raised THEN Out(Return(error_value), r.requests, r.prompt, r.path, "")
    ELSE r

-----------------------------------------------------------------------------
(* AIAssistant.generate_summary                                            *)

summary_prompt(truncated_text) ==
    [task |-> "summary", document |-> truncated_text.value, max_tokens |-> 200]

\* the body of the try block; summary = response....content.strip()
generate_summary_try(text, gw) ==
    truncated(truncate_text(text, SummaryBudget),
              summary_prompt(truncate_text(text, SummaryBudget)),
              gw, Strip(gw.content))

\* return f"Error generating summary: {str(e)}"
summary_error(r) == "Error generating summary: " \o r.error

\* try: ... except Exception as e: ...
generate_summary(text, gw) ==
    except(generate_summary_try(text, gw),
           summary_error(generate_summary_try(text, gw)))

-----------------------------------------------------------------------------
(* AIAssistant.answer_question                                             *)

\* context += f"Q: {entry['question']}\nA: {entry['answer']}\n"
RECURSIVE FormatEntries(_)
FormatEntries(entries) ==
    IF Len(entries) = 0 THEN ""
    ELSE "Q: " \o Head(entries).question \o "\nA: " \o Head(entries).answer \o "\n"
         \o FormatEntries(Tail(entries))

\* a slip in the slice: context_history[:3], the oldest three exchanges
build_context_first3(context_history) ==
    IF Len(context_history) = 0 THEN ""
    ELSE "\n\nPrevious conversation:\n" \o FormatEntries(FirstN(context_history, 3))

\* "Build context from history": the last 3 exchanges, oldest first
build_context(context_history) ==
    IF Len(context_history) = 0 THEN ""
    ELSE "\n\nPrevious conversation:\n" \o FormatEntries(LastN(context_history, 3))

\* parts = full_response.split("Justification:", 1)
split_parts(full_response, parts) ==
    IF Len(parts) = 2
    THEN <<Strip(parts[1]), Strip(parts[2])>>
    ELSE <<full_response, "Based on the document content provided.">>

\* "Try to separate answer and justification"
split_answer(full_response) ==
    IF Contains(Lower(full_response), "justification:")
    THEN split_parts(full_response, Split1(full_response, "Justification:"))
    ELSE <<full_response, "Response is grounded in the document content.">>

answer_prompt(truncated_text, question, context_history) ==
    [task |-> "answer", document |-> truncated_text.value,
     context |-> build_context(context_history),
     question |-> question, max_tokens |-> 400]

\* the body of the try block; full_response = response....content.strip()
answer_question_try(question, text, context_history, gw) ==
    truncated(truncate_text(text, AnswerBudget),
              answer_prompt(truncate_text(text, AnswerBudget), question, context_history),
              gw, split_answer(Strip(gw.content)))

\* return f"Error answering question: {str(e)}", ""
answer_error(r) == <<"Error answering question: " \o r.error, "">>

\* try: ... except Exception as e: ...
answer_question(question, text, context_history, gw) ==
    except(answer_question_try(question, text, context_history, gw),
           answer_error(answer_question_try(question, text, context_history, gw)))

-----------------------------------------------------------------------------
(* AIAssistant.evaluate_user_answer                                        *)

Digits == "0123456789"
IsDigit(c) == Len(c) = 1 /\ Contains(Digits, c)

RECURSIVE DigitsValue(_, _)
DigitsValue(s, acc) ==
    IF Len(s) = 0 THEN acc
    ELSE DigitsValue(SubSeq(s, 2, Len(s)), 10 * acc + (Find(Digits, Char(s, 1)) - 1))

\* int(s): surrounding whitespace and one sign are accepted, then decimal digits
int(s) ==
    LET t == Strip(s)
        signed == Len(t) > 0 /\ Char(t, 1) \in {"+", "-"}
        body == IF signed THEN SubSeq(t, 2, Len(t)) ELSE t
    IN IF Len(body) > 0 /\ \A i \in 1..Len(body) : IsDigit(Char(body, i))
       THEN Return(IF signed /\ Char(t, 1) = "-"
                   THEN 0 - DigitsValue(body, 0) ELSE DigitsValue(body, 0))
       ELSE Raise("invalid literal for int() with base 10")

\* for line in lines: the three prefixes, a later line overwriting an earlier one
RECURSIVE parse_evaluation_lines(_, _)
parse_evaluation_lines(lines, acc) ==
    IF Len(lines) = 0 THEN acc
    ELSE LET line == Head(lines)
             next ==
                IF StartsWith(line, "Evaluation:")
                THEN [acc EXCEPT ![1] = Strip(Remove(line, "Evaluation:"))]
                ELSE IF StartsWith(line, "Feedback:")
                THEN [acc EXCEPT ![2] = Strip(Remove(line, "Feedback:"))]
                ELSE IF StartsWith(line, "Score:")
                THEN LET n == int(Strip(Remove(line, "Score:")))
                     IN [acc EXCEPT ![3] = IF n.raised THEN 5 ELSE n.value]
                ELSE acc
         IN parse_evaluation_lines(Tail(lines), next)

\* a slip in the defaults: a reply without a score line scores 0
parse_evaluation_default0(full_response) ==
    parse_evaluation_lines(Split(full_response, "\n"),
                           <<"Partially Correct", full_response, 0>>)

\* "Parse response"
parse_evaluation(full_response) ==
    parse_evaluation_lines(Split(full_response, "\n"),
                           <<"Partially Correct", full_response, 5>>)

evaluation_prompt(truncated_text, question, user_answer, correct_info) ==
    [task |-> "evaluation", document |-> truncated_text.value,
     question |-> question, correct_info |-> correct_info,
     user_answer |-> user_answer, max_tokens |-> 300]

\* the body of the try block; full_response = response....content.strip()
evaluate_user_answer_try(question, user_answer, correct_info, text, gw) ==
    truncated(truncate_text(text, EvaluationBudget),
              evaluation_prompt(truncate_text(text, EvaluationBudget),
                                question, user_answer, correct_info),
              gw, parse_evaluation(Strip(gw.content)))

\* return "Error", f"Error evaluating answer: {str(e)}", 0
evaluation_error(r) == <<"Error", "Error evaluating answer: " \o r.error, 0>>

\* a slip in the handler: no except clause takes the exception
evaluate_user_answer_uncaught(question, user_answer, correct_info, text, gw) ==
    evaluate_user_answer_try(question, user_answer, correct_info, text, gw)

\* try: ... except Exception as e: ...
evaluate_user_answer(question, user_answer, correct_info, text, gw) ==
    except(evaluate_user_answer_try(question, user_answer, correct_info, text, gw),
           evaluation_error(
               evaluate_user_answer_try(question, user_answer, correct_info, text, gw)))

-----------------------------------------------------------------------------
(* JSON values as json.loads returns them, and the Python operations the   *)
(* question generator applies to them.                                     *)

JStr(s) == [t |-> "string", s |-> s, f |-> <<>>]
JNum(s) == [t |-> "number", s |-> s, f |-> <<>>]
JNull == [t |-> "null", s |-> "", f |-> <<>>]
JArr == [t |-> "array", s |-> "", f |-> <<>>]
\* fields: a record from keys to JSON values
JObj(fields) == [t |-> "object", s |-> "", f |-> fields]

\* type(v).__name__
PyTypeName(v) ==
    CASE v.t = "object" -> "dict"
      [] v.t = "string" -> "str"
      [] v.t = "array" -> "list"
      [] v.t = "number" -> "int"
      [] OTHER -> "NoneType"

\* key in q: a dict's keys, a str's substrings, a list's members (the model's
\* lists are empty); TypeError for a number or None
py_in(key, q) ==
    CASE q.t = "object" -> Return(key \in DOMAIN q.f)
      [] q.t = "string" -> Return(Contains(q.s, key))
      [] q.t = "array" -> Return(FALSE)
      [] OTHER -> Raise("argument of type '" \o PyTypeName(q) \o "' is not iterable")

\* q[key]: TypeError unless q is a dict (the code reaches it only for a key in q)
py_getitem(q, key) ==
    IF q.t = "object" THEN Return(q.f[key])
    ELSE Raise("string indices must be integers")

\* v.strip(): AttributeError unless v is a str
py_strip(v) ==
    IF v.t = "string" THEN Return(Strip(v.s))
    ELSE Raise("'" \o PyTypeName(v) \o "' object has no attribute 'strip'")

\* q.get(key, default) of a dict, as the value kept in the question
py_get(q, key, default) ==
    IF key \in DOMAIN q.f
    THEN (IF q.f[key].t = "string" THEN q.f[key].s ELSE q.f[key])
    ELSE default

\* str.rfind(p) as a 1-based position, 0 when p does not occur
RFind(s, p) ==
    LET hits == {i \in 1..(Len(s) - Len(p) + 1) : SubSeq(s, i, i + Len(p) - 1) = p}
    IN IF hits = {} THEN 0 ELSE CHOOSE i \in hits : \A j \in hits : i >= j

\* s[start:end] for Python's 0-based start and end, a negative one counted from
\* the end of s
PySlice(s, start, end) ==
    LET n == Len(s)
        a == IF start < 0 THEN Max(0, n + start) ELSE Min(start, n)
        b == IF end < 0 THEN Max(0, n + end) ELSE Min(end, n)
    IN IF a < b THEN SubSeq(s, a + 1, b) ELSE ""

-----------------------------------------------------------------------------
(* QuestionGenerator                                                       *)

RequiredKeys == <<"question", "expected_answer", "difficulty">>

\* all(key in q for key in ['question', 'expected_answer', 'difficulty']),
\* stopping at the first key that is missing or whose test raises
RECURSIVE has_all_keys(_, _)
has_all_keys(q, keys) ==
    IF Len(keys) = 0 THEN Return(TRUE)
    ELSE LET r == py_in(Head(keys), q)
         IN IF r.raised THEN r
            ELSE IF ~r.value THEN Return(FALSE)
            ELSE has_all_keys(q, Tail(keys))

\* q[key].strip()
strip_of(item) == IF item.raised THEN item ELSE py_strip(item.value)

\* the dict literal, its values computed in order
question_dict(q, stripped_question, stripped_answer) ==
    IF stripped_question.raised THEN stripped_question
    ELSE IF stripped_answer.raised THEN stripped_answer
    ELSE Return([question |-> stripped_question.value,
                 expected_answer |-> stripped_answer.value,
                 difficulty |-> py_get(q, "difficulty", "Medium"),
                 type |-> py_get(q, "type", "comprehension")])

\* valid_questions.append({...}) for one q that holds the three keys
clean_question(q) ==
    question_dict(q, strip_of(py_getitem(q, "question")),
                     strip_of(py_getitem(q, "expected_answer")))

\* valid_questions after the loop body ran for one q
cleaned_one(valid_questions, has, cleaned) ==
    IF has.raised THEN has
    ELSE IF ~has.value THEN Return(valid_questions)
    ELSE IF cleaned.raised THEN cleaned
    ELSE Return(Append(valid_questions, cleaned.value))

\* "Validate and clean questions": for q in questions
RECURSIVE clean_questions(_, _)
clean_rest(questions, one) ==
    IF one.raised THEN one ELSE clean_questions(Tail(questions), one.value)
clean_questions(questions, valid_questions) ==
    IF Len(questions) = 0 THEN Return(valid_questions)
    ELSE clean_rest(questions,
                    cleaned_one(valid_questions,
                                has_all_keys(Head(questions), RequiredKeys),
                                clean_question(Head(questions))))

Markers == <<"1.", "2.", "3.", "Question:", "Q:">>

\* a slip in the tuple: the numbered markers only
StartsWithMarker_numbered(line) == \E i \in 1..3 : StartsWith(line, Markers[i])

\* line.startswith(('1.', '2.', '3.', 'Question:', 'Q:'))
StartsWithMarker(line) == \E i \in 1..Len(Markers) : StartsWith(line, Markers[i])

ManualQuestion(line) ==
    [question |-> line, expected_answer |-> "Based on document content",
     difficulty |-> "Medium", type |-> "comprehension"]

\* for line in lines: current_question is <<>> for the empty dict
RECURSIVE manual_lines(_, _, _)
manual_lines(lines, questions, current_question) ==
    IF Len(lines) = 0
    THEN (IF current_question # <<>> THEN questions \o current_question ELSE questions)
    ELSE LET line == Strip(Head(lines))
         IN IF StartsWithMarker(line)
            THEN manual_lines(Tail(lines),
                              IF current_question # <<>>
                              THEN questions \o current_question ELSE questions,
                              <<ManualQuestion(line)>>)
            ELSE manual_lines(Tail(lines), questions, current_question)

\* QuestionGenerator._parse_questions_manually
parse_questions_manually(response_text, num_questions) ==
    FirstN(manual_lines(Split(response_text, "\n"), <<>>, <<>>), num_questions)

fallback_questions ==
    << [question |-> "What is the main topic or theme discussed in this document?",
        expected_answer |-> "The main topic should be identified from the document content",
        difficulty |-> "Easy", type |-> "comprehension"],
       [question |-> "What are the key findings or conclusions presented in the document?",
        expected_answer |-> "Key findings should be summarized from the document",
        difficulty |-> "Medium", type |-> "analysis"],
       [question |-> "Based on the information provided, what implications or applications can be drawn?",
        expected_answer |-> "Implications should be inferred from the document content",
        difficulty |-> "Hard", type |-> "inference"] >>

\* a slip in the slice: the whole set whatever num_questions is
generate_fallback_questions_unsliced(text, num_questions) == fallback_questions

\* QuestionGenerator._generate_fallback_questions
generate_fallback_questions(text, num_questions) ==
    FirstN(fallback_questions, num_questions)

\* the validation gate of validate_questions for one question
passes_gate(question) ==
    /\ question.question # ""
    /\ Len(Strip(question.question)) > 10
    /\ question.expected_answer # ""
    /\ Len(Strip(question.expected_answer)) > 5

\* QuestionGenerator.validate_questions
RECURSIVE validate_questions(_, _)
validate_questions(questions, text) ==
    IF Len(questions) = 0 THEN <<>>
    ELSE (IF passes_gate(Head(questions)) THEN <<Head(questions)>> ELSE <<>>)
         \o validate_questions(Tail(questions), text)

-----------------------------------------------------------------------------
(* Replies of the service to a question-generation request, and json.loads *)
(* on the texts the generator cuts out of them.                            *)

\* five objects; the second lacks "difficulty"
JsonArrayGood ==
    "[{\"question\": \" How does the method differ from the baseline? \", \"expected_answer\": \"It adds a retrieval step\", \"difficulty\": \"Medium\", \"type\": \"analysis\"}, {\"question\": \"Which dataset is used for evaluation?\", \"expected_answer\": \"The benchmark in section 4\"}, {\"question\": \"Why is the second experiment needed?\", \"expected_answer\": \" It rules out a confound \", \"difficulty\": \"Hard\"}, {\"question\": \"What follows if the assumption fails?\", \"expected_answer\": \"The bound no longer holds\", \"difficulty\": \"Hard\", \"type\": \"inference\"}, {\"question\": \"What is the central claim of the paper?\", \"expected_answer\": \"Retrieval improves accuracy\", \"difficulty\": \"Easy\", \"type\": \"comprehension\"}]"
\* well-formed, with a question and an expected answer below the validation gate
JsonArrayShort ==
    "[{\"question\":\"Q1?\",\"expected_answer\":\"A1\",\"difficulty\":\"Easy\"}]"
\* an array whose elements are no objects
JsonArrayNumbers == "[1, 2]"
\* an object whose "question" is no string
JsonArrayNonString ==
    "[{\"question\": 7, \"expected_answer\": \"Seven is the answer\", \"difficulty\": \"Easy\"}]"
\* an object whose difficulty and type carry surrounding blanks
JsonArrayPadded ==
    "[{\"question\": \" Why does retrieval help here? \", \"expected_answer\": \"It adds the missing facts\", \"difficulty\": \" Hard \", \"type\": \" inference\"}]"

QReplyJson == "Here are the questions:\n" \o JsonArrayGood \o "\nGood luck!"
QReplyShort == JsonArrayShort
QReplyNumbers == JsonArrayNumbers
QReplyNonString == JsonArrayNonString
QReplyPadded == JsonArrayPadded
QReplyMarkers ==
    "Sure!\n1. What is the main claim of the paper?\nIt is stated in the abstract.\n  Q: Why does the claim matter?\n2. How is it tested?\nQuestion: What are the limits?\n3. What comes next?"
QReplyProse == "not json at all"
QReplyCitations == "See [1] for the method and [2] for the data."

\* json.loads(json_text): the arrays above parse to their elements; every other
\* text the model cuts out ("", "[1] for the method and [2]") is no JSON
json_loads(json_text) ==
    CASE json_text = JsonArrayGood ->
           Return(<< JObj([question |-> JStr(" How does the method differ from the baseline? "),
                           expected_answer |-> JStr("It adds a retrieval step"),
                           difficulty |-> JStr("Medium"),
                           type |-> JStr("analysis")]),
                     JObj([question |-> JStr("Which dataset is used for evaluation?"),
                           expected_answer |-> JStr("The benchmark in section 4")]),
                     JObj([question |-> JStr("Why is the second experiment needed?"),
                           expected_answer |-> JStr(" It rules out a confound "),
                           difficulty |-> JStr("Hard")]),
                     JObj([question |-> JStr("What follows if the assumption fails?"),
                           expected_answer |-> JStr("The bound no longer holds"),
                           difficulty |-> JStr("Hard"),
                           type |-> JStr("inference")]),
                     JObj([question |-> JStr("What is the central claim of the paper?"),
                           expected_answer |-> JStr("Retrieval improves accuracy"),
                           difficulty |-> JStr("Easy"),
                           type |-> JStr("comprehension")]) >>)
      [] json_text = JsonArrayShort ->
           Return(<< JObj([question |-> JStr("Q1?"),
                           expected_answer |-> JStr("A1"),
                           difficulty |-> JStr("Easy")]) >>)
      [] json_text = JsonArrayNumbers -> Return(<< JNum("1"), JNum("2") >>)
      [] json_text = JsonArrayNonString ->
           Return(<< JObj([question |-> JNum("7"),
                           expected_answer |-> JStr("Seven is the answer"),
                           difficulty |-> JStr("Easy")]) >>)
      [] json_text = JsonArrayPadded ->
           Return(<< JObj([question |-> JStr(" Why does retrieval help here? "),
                           expected_answer |-> JStr("It adds the missing facts"),
                           difficulty |-> JStr(" Hard "),
                           type |-> JStr(" inference")]) >>)
      [] OTHER -> Raise("Expecting value: line 1 column 1 (char 0)")

-----------------------------------------------------------------------------
(* QuestionGenerator.generate_challenge_questions                          *)

\* json_text = response_text[start:end] with start = find('['), end = rfind(']') + 1
json_text_of(response_text) ==
    PySlice(response_text, Find(response_text, "[") - 1,
                           (RFind(response_text, "]") - 1) + 1)

\* return valid_questions[:num_questions]; a TypeError or AttributeError of the
\* loop leaves the inner try block, which catches json.JSONDecodeError only
parsed_json(valid_questions, num_questions) ==
    IF valid_questions.raised
    THEN [raised |-> TRUE, path |-> "parse", error |-> valid_questions.error,
          value |-> ""]
    ELSE [raised |-> FALSE, path |-> "json", error |-> "",
          value |-> FirstN(valid_questions.value, num_questions)]

\* the inner try block, given questions = json.loads(json_text)
parsed_reply(questions, response_text, num_questions) ==
    IF questions.raised
    THEN \* except json.JSONDecodeError
         [raised |-> FALSE, path |-> "manual", error |-> "",
          value |-> parse_questions_manually(response_text, num_questions)]
    ELSE parsed_json(clean_questions(questions.value, <<>>), num_questions)

\* the inner try block: "Try to parse JSON response"
parse_question_set(response_text, num_questions) ==
    parsed_reply(json_loads(json_text_of(response_text)), response_text, num_questions)

\* the outer try block from the request on
questions_requested(prompt, response, parsed) ==
    IF response.raised THEN Out(response, 1, prompt, "gateway", "")
    ELSE Out(parsed, 1, prompt, parsed.path, "")

\* the outer try block from truncated_text on
questions_truncated(truncated_text, num_questions, gw) ==
    IF truncated_text.raised THEN Out(truncated_text, 0, NoPrompt, "tokenizer", "")
    ELSE questions_requested([task |-> "questions", document |-> truncated_text.value,
                              num_questions |-> num_questions, max_tokens |-> 800],
                             create("questions", gw),
                             parse_question_set(Strip(gw.content), num_questions))

\* the body of the outer try block
generate_challenge_questions_try(text, num_questions, gw) ==
    questions_truncated(truncate_text(text, QuestionBudget), num_questions, gw)

\* except Exception as e: st.error(...); return the fallback questions.
\* cause keeps what raised: "tokenizer", "gateway" or "parse".
questions_except(r, text, num_questions) ==
    IF r.raised
    THEN [Out(Return(generate_fallback_questions(text, num_questions)),
              r.requests, r.prompt, "fallback",
              "Error generating questions: " \o r.error)
          EXCEPT !.cause = r.path]
    ELSE r

\* a slip in the handler: the exception is shown and raised again
generate_challenge_questions_reraise(text, num_questions, gw) ==
    generate_challenge_questions_try(text, num_questions, gw)

\* QuestionGenerator.generate_challenge_questions: try: ... except Exception
generate_challenge_questions(text, num_questions, gw) ==
    questions_except(generate_challenge_questions_try(text, num_questions, gw),
                     text, num_questions)

-----------------------------------------------------------------------------
(* DocumentProcessor                                                       *)

\* self.max_file_size = 10 * 1024 * 1024
MaxFileSize == 10485760
\* len(text_content.strip()) < 50
MinTextLength == 50

supported_formats == {".pdf", ".txt"}

\* os.path.splitext(name)[1].lower()
file_extension(name) ==
    LET i == RFind(name, ".")
    IN IF i <= 1 THEN "" ELSE Lower(SubSeq(name, i, Len(name)))

\* DocumentProcessor.validate_file
validate_file(uploaded_file) ==
    IF file_extension(uploaded_file.name) \notin supported_formats
    THEN <<FALSE, "Unsupported file format. Please upload .pdf, .txt files only.">>
    ELSE IF uploaded_file.size > MaxFileSize
    THEN <<FALSE, "File size too large. Maximum size allowed is 10MB.">>
    ELSE <<TRUE, "">>

\* DocumentProcessor.extract_text_from_txt: latin-1 decodes any bytes, so the
\* text is what the file holds unless that is blank
extract_text_from_txt(uploaded_file) ==
    IF Strip(uploaded_file.text) # "" THEN Return(uploaded_file.text)
    ELSE Raise("Error processing TXT file: Could not decode the text file with any supported encoding")

\* DocumentProcessor.extract_text_from_pdf for a one-page file
extract_text_from_pdf(uploaded_file) ==
    IF Strip(uploaded_file.text) # ""
    THEN Return("\n--- Page 1 ---\n" \o uploaded_file.text)
    ELSE Raise("Error processing PDF: No text could be extracted from the PDF")

\* a slip in process_document: the "Basic text validation" is missing
process_document_unchecked(uploaded_file) ==
    IF ~validate_file(uploaded_file)[1]
    THEN <<FALSE, "", validate_file(uploaded_file)[2]>>
    ELSE IF extract_text_from_txt(uploaded_file).raised
    THEN <<FALSE, "", extract_text_from_txt(uploaded_file).error>>
    ELSE <<TRUE, extract_text_from_txt(uploaded_file).value, "">>

\* DocumentProcessor.process_document: (success, text_content, error_message)
process_document(uploaded_file) ==
    LET valid == validate_file(uploaded_file)
        ext == file_extension(uploaded_file.name)
        text_content == IF ext = ".pdf" THEN extract_text_from_pdf(uploaded_file)
                        ELSE extract_text_from_txt(uploaded_file)
    IN IF ~valid[1] THEN <<FALSE, "", valid[2]>>
       ELSE IF text_content.raised THEN <<FALSE, "", text_content.error>>
       ELSE IF text_content.value = "" \/ Len(Strip(text_content.value)) < MinTextLength
       THEN <<FALSE, "", "Document appears to be empty or too short to process">>
       ELSE <<TRUE, text_content.value, "">>

-----------------------------------------------------------------------------
(* The environment: uploaded files, questions, answers, service outcomes.  *)

TextPlain ==
    "Retrieval improves accuracy on the benchmark. Section 2 gives the method."
TextSpecial ==
    "Notes on tokenizers: the marker <|endoftext|> ends a training document."

Files ==
    { [name |-> "paper.txt", size |-> 2048, text |-> TextPlain],
      [name |-> "notes.TXT", size |-> 1024, text |-> TextSpecial],
      [name |-> "memo.txt", size |-> 64, text |-> "  Too short to process.  "],
      [name |-> "scan.pdf", size |-> 11534336, text |-> TextPlain] }

TextSurvey ==
    "A survey of sixty users found that most prefer short summaries."

\* the documents a direct call of a backend function is given
Texts == {TextPlain, TextSpecial, TextSurvey}

Questions == {"What improves accuracy?"}
UserAnswers == {"Retrieval does."}
\* the answers a direct call of add_to_conversation_history is given
HistoryAnswers == {"Retrieval.", "Error answering question: Connection error."}

SummaryOutcomes ==
    { GatewayFails(ConnectionError),
      GatewayReplies("  The document shows that retrieval improves accuracy.\n") }
AnswerOutcomes ==
    { GatewayFails(ConnectionError),
      GatewayReplies("Retrieval.\nJustification: Section 2 gives the method.") }
EvaluationOutcomes ==
    { GatewayFails(ConnectionError),
      GatewayReplies("Evaluation: Correct\nFeedback: Good job\nScore: 9") }
\* what a direct call of the question generator may meet
QuestionOutcomes ==
    { GatewayFails(ConnectionError), GatewayFails("Rate limit reached."),
      GatewayReplies(QReplyJson), GatewayReplies(QReplyShort),
      GatewayReplies(QReplyNumbers), GatewayReplies(QReplyNonString),
      GatewayReplies(QReplyMarkers), GatewayReplies(QReplyProse),
      GatewayReplies(QReplyCitations), GatewayReplies(QReplyPadded) }
\* what the session's question generation meets
SessionQuestionOutcomes ==
    { GatewayFails(ConnectionError),
      GatewayReplies(QReplyJson), GatewayReplies(QReplyShort),
      GatewayReplies(QReplyNumbers), GatewayReplies(QReplyMarkers),
      GatewayReplies(QReplyProse) }

-----------------------------------------------------------------------------
(* src/app.py: the session and the user's actions.                         *)

NoGateway == [ok |-> FALSE, content |-> "", error |-> "not called"]

\* What the last action did: its name, the flow it ran (NoOut for none), the
\* service's outcome when a request was sent, the history it handed to the flow
\* (entries, and the document each was asked about) and the number of history
\* entries it removed by clearing.
Last(action, out, gw, passed, passed_about, cleared) ==
    [action |-> action, out |-> out,
     gw |-> IF out.requests > 0 THEN gw ELSE NoGateway,
     passed |-> passed, passed_about |-> passed_about, cleared |-> cleared]

NoCall == [fn |-> "none", text |-> "", n |-> 0, gw |-> NoGateway,
           done |-> FALSE, out |-> NoOut]

InitSession ==
    /\ document_text = ""
    /\ document_name = ""
    /\ summary = ""
    /\ challenge_questions = <<>>
    /\ current_question_index = 0
    /\ challenge_mode = FALSE
    /\ question_answered = FALSE
    /\ conversation_history = <<>>
    /\ appended = <<>>
    /\ asked_about = <<>>
    /\ last = Last("start", NoOut, NoGateway, <<>>, <<>>, 0)

Init == InitSession /\ call = NoCall

\* a slip in process_document: the call of clear_conversation_history is missing
history_after_process_kept == conversation_history

\* process_document's "ai_assistant.clear_conversation_history()"
history_after_process == clear_conversation_history

\* process_document's "if success:" branch; s is the summary flow's result, and
\* an exception of it would end the script run where it is raised
document_processed(uploaded_file, text_content, s, gw) ==
    /\ document_text' = text_content
    /\ document_name' = uploaded_file.name
    /\ IF s.raised
       THEN UNCHANGED <<summary, challenge_questions, current_question_index,
                        challenge_mode, conversation_history, appended, asked_about>>
       ELSE /\ summary' = s.value
            /\ challenge_questions' = <<>>
            /\ current_question_index' = 0
            /\ challenge_mode' = FALSE
            /\ conversation_history' = history_after_process
            /\ appended' = <<>>
            /\ asked_about' = SubSeq(asked_about, 1, Len(history_after_process))
    /\ last' = Last("process_document", s, gw, <<>>, <<>>,
                    Len(conversation_history) - Len(conversation_history'))
    /\ UNCHANGED <<question_answered, call>>

\* "Process Document" on an uploaded file: process_document(uploaded_file)
ProcessDocument(uploaded_file, gw) ==
    IF process_document(uploaded_file)[1]
    THEN document_processed(uploaded_file, process_document(uploaded_file)[2],
                            generate_summary(process_document(uploaded_file)[2], gw), gw)
    ELSE /\ last' = Last("process_document_failed", NoOut, gw, <<>>, <<>>, 0)
         /\ UNCHANGED <<session, conversation_history, appended, asked_about, call>>

\* "Clear Document", offered while a document name is set: clear_document()
ClearDocument ==
    /\ document_name # ""
    /\ document_text' = ""
    /\ document_name' = ""
    /\ summary' = ""
    /\ challenge_questions' = <<>>
    /\ current_question_index' = 0
    /\ challenge_mode' = FALSE
    /\ question_answered' = FALSE
    /\ conversation_history' = clear_conversation_history
    /\ appended' = <<>>
    /\ asked_about' = <<>>
    /\ last' = Last("clear_document", NoOut, NoGateway, <<>>, <<>>,
                     Len(conversation_history))
    /\ UNCHANGED call

\* "Ask Anything", offered while a document is loaded
AskAnything ==
    /\ document_text # ""
    /\ challenge_mode' = FALSE
    /\ last' = Last("ask_anything", NoOut, NoGateway, <<>>, <<>>, 0)
    /\ UNCHANGED <<document_text, document_name, summary, challenge_questions,
                   current_question_index, question_answered,
                   conversation_history, appended, asked_about, call>>

\* st.session_state.get('conversation_history', [])
st_session_state_get_history == conversation_history

\* the statements after answer_question returned r = (answer, justification);
\* an exception of it would end the script run before them
answer_shown(r, question, gw) ==
    /\ IF r.raised
       THEN UNCHANGED <<conversation_history, appended, asked_about>>
       ELSE /\ conversation_history' =
                  add_to_conversation_history(conversation_history, question, r.value[1])
            /\ appended' = Append(appended, Entry(question, r.value[1]))
            /\ asked_about' = LastN(Append(asked_about, document_text), HistoryCap)
    /\ last' = Last("get_answer", r, gw, conversation_history, asked_about, 0)

\* "Get Answer" with a non-empty question, in Ask Anything mode
GetAnswer(question, gw) ==
    /\ document_text # ""
    /\ ~challenge_mode
    /\ question # ""
    /\ Len(appended) < MaxAsked
    /\ answer_shown(answer_question(question, document_text,
                                    st_session_state_get_history, gw),
                    question, gw)
    /\ UNCHANGED <<session, call>>

\* questions = question_generator.generate_challenge_questions(...) and the
\* three assignments after it; an exception would end the script run before them
store_questions(r, questions, action, gw) ==
    /\ IF r.raised
       THEN /\ challenge_questions' = questions
            /\ UNCHANGED <<current_question_index, question_answered>>
       ELSE /\ challenge_questions' = r.value
            /\ current_question_index' = 0
            /\ question_answered' = FALSE
    /\ last' = Last(action, r, gw, <<>>, <<>>, 0)

\* a slip in app.py's generate_challenge_questions: the cached set is not looked at
app_generate_challenge_questions_uncached(questions, mode, gw, action) ==
    /\ challenge_mode' = mode
    /\ store_questions(generate_challenge_questions(document_text, 3, gw),
                       questions, action, gw)

\* app.py's generate_challenge_questions(): only an empty cached set is refilled.
\* questions is the cached set as the caller left it.
app_generate_challenge_questions(questions, mode, gw, action) ==
    /\ challenge_mode' = mode
    /\ IF questions = <<>>
       THEN store_questions(generate_challenge_questions(document_text, 3, gw),
                            questions, action, gw)
       ELSE /\ challenge_questions' = questions
            /\ UNCHANGED <<current_question_index, question_answered>>
            /\ last' = Last(action, NoOut, gw, <<>>, <<>>, 0)

\* "Challenge Me", offered while a document is loaded
ChallengeMe(gw) ==
    /\ document_text # ""
    /\ app_generate_challenge_questions(challenge_questions, TRUE, gw, "challenge_me")
    /\ UNCHANGED <<document_text, document_name, summary,
                   conversation_history, appended, asked_about, call>>

\* display_challenge_mode shows the current question and its three buttons
QuestionShown ==
    /\ document_text # ""
    /\ challenge_mode
    /\ challenge_questions # <<>>
    /\ current_question_index < Len(challenge_questions)

\* evaluate_answer after evaluate_user_answer returned r
answer_evaluated(r, gw) ==
    /\ question_answered' = (IF r.raised THEN question_answered ELSE TRUE)
    /\ last' = Last("submit_answer", r, gw, <<>>, <<>>, 0)

\* evaluate_answer(question, user_answer)
evaluate_answer(question, user_answer, gw) ==
    answer_evaluated(evaluate_user_answer(question.question, user_answer,
                                          question.expected_answer, document_text, gw),
                     gw)

\* "Submit Answer" with a non-empty answer
SubmitAnswer(user_answer, gw) ==
    /\ QuestionShown
    /\ user_answer # ""
    /\ evaluate_answer(challenge_questions[current_question_index + 1], user_answer, gw)
    /\ UNCHANGED <<document_text, document_name, summary, challenge_questions,
                   current_question_index, challenge_mode,
                   conversation_history, appended, asked_about, call>>

\* a slip in the guard of "Skip Question": the last question can be skipped too
later_question_exists_offbyone == current_question_index < Len(challenge_questions)

\* current_idx < total_questions - 1, the guard of "Skip Question" and of
\* "Next Question"
later_question_exists == current_question_index < Len(challenge_questions) - 1

\* "Skip Question" while a later question exists
SkipQuestion ==
    /\ QuestionShown
    /\ later_question_exists
    /\ current_question_index' = current_question_index + 1
    /\ question_answered' = FALSE
    /\ last' = Last("skip_question", NoOut, NoGateway, <<>>, <<>>, 0)
    /\ UNCHANGED <<document_text, document_name, summary, challenge_questions,
                   challenge_mode, conversation_history, appended, asked_about, call>>

\* evaluate_answer has drawn the evaluation and its two navigation buttons in
\* this script run
EvaluationShown ==
    /\ QuestionShown
    /\ last.action = "submit_answer"

\* "Next Question" under the evaluation, while a later question exists.  The
\* click is taken to reach the button's branch (the most the framework's rerun
\* can do with it).
NextQuestion ==
    /\ EvaluationShown
    /\ later_question_exists
    /\ current_question_index' = current_question_index + 1
    /\ question_answered' = FALSE
    /\ last' = Last("next_question", NoOut, NoGateway, <<>>, <<>>, 0)
    /\ UNCHANGED <<document_text, document_name, summary, challenge_questions,
                   challenge_mode, conversation_history, appended, asked_about, call>>

\* "Back to Ask Anything" under the evaluation
BackToAskAnything ==
    /\ EvaluationShown
    /\ challenge_mode' = FALSE
    /\ last' = Last("back_to_ask_anything", NoOut, NoGateway, <<>>, <<>>, 0)
    /\ UNCHANGED <<document_text, document_name, summary, challenge_questions,
                   current_question_index, question_answered,
                   conversation_history, appended, asked_about, call>>

\* "New Questions": the cached set is emptied, then refilled
NewQuestions(gw) ==
    /\ QuestionShown
    /\ app_generate_challenge_questions(<<>>, challenge_mode, gw, "new_questions")
    /\ UNCHANGED <<document_text, document_name, summary,
                   conversation_history, appended, asked_about, call>>

Next ==
    \/ \E f \in Files, gw \in SummaryOutcomes : ProcessDocument(f, gw)
    \/ ClearDocument
    \/ AskAnything
    \/ \E q \in Questions, gw \in AnswerOutcomes : GetAnswer(q, gw)
    \/ \E gw \in SessionQuestionOutcomes : ChallengeMe(gw)
    \/ \E a \in UserAnswers, gw \in EvaluationOutcomes : SubmitAnswer(a, gw)
    \/ SkipQuestion
    \/ NextQuestion
    \/ BackToAskAnything
    \/ \E gw \in SessionQuestionOutcomes : NewQuestions(gw)

\* The session: every run of the application
Spec == Init /\ [][Next]_vars

-----------------------------------------------------------------------------
(* Document processing in a session that asks, generates questions and     *)
(* skips: every file of the model and one more, one outcome per request of *)
(* the other actions.                                                      *)

\* thirty letters, one blank between two of them: 59 characters
TextSparse == "a b c d e f g h i j k l m n o p q r s t u v w x y z a b c d"

ProcessFiles ==
    Files \cup { [name |-> "list.txt", size |-> 59, text |-> TextSparse],
                 [name |-> "paper.pdf", size |-> 4096, text |-> TextPlain],
                 [name |-> "blank.txt", size |-> 3, text |-> " \n "],
                 [name |-> "data.csv", size |-> 2048, text |-> TextPlain] }

ProcessNext ==
    \/ \E f \in ProcessFiles, gw \in SummaryOutcomes : ProcessDocument(f, gw)
    \/ ClearDocument
    \/ \E q \in Questions : GetAnswer(q, GatewayFails(ConnectionError))
    \/ ChallengeMe(GatewayReplies(QReplyJson))
    \/ SkipQuestion

ProcessSpec == Init /\ [][ProcessNext]_vars

-----------------------------------------------------------------------------
(* The conversation history on its own: any sequence of                    *)
(* add_to_conversation_history and clear_conversation_history calls.       *)

AddToHistory(question, answer) ==
    /\ Len(appended) < MaxAppends
    /\ conversation_history' =
           add_to_conversation_history(conversation_history, question, answer)
    /\ appended' = Append(appended, Entry(question, answer))
    /\ last' = Last("add_to_conversation_history", NoOut, NoGateway, <<>>, <<>>, 0)
    /\ UNCHANGED <<session, asked_about, call>>

ClearHistory ==
    /\ conversation_history' = clear_conversation_history
    /\ appended' = <<>>
    /\ last' = Last("clear_conversation_history", NoOut, NoGateway, <<>>, <<>>,
                    Len(conversation_history))
    /\ UNCHANGED <<session, asked_about, call>>

HistoryNext ==
    \/ \E q \in Questions, a \in HistoryAnswers : AddToHistory(q, a)
    \/ ClearHistory

HistorySpec == Init /\ [][HistoryNext]_vars

-----------------------------------------------------------------------------
(* QuestionGenerator.generate_challenge_questions called directly, for     *)
(* every document, requested count and service outcome of the model.       *)

GenerateCalls ==
    { [fn |-> "generate_challenge_questions", text |-> t, n |-> n, gw |-> gw,
       done |-> FALSE, out |-> NoOut] :
      t \in Texts, n \in 0..MaxNumQuestions, gw \in QuestionOutcomes }

GenerateInit == InitSession /\ call \in GenerateCalls

CallGenerate ==
    /\ call.fn = "generate_challenge_questions"
    /\ ~call.done
    /\ call' = [call EXCEPT !.done = TRUE,
                            !.out = generate_challenge_questions(call.text, call.n, call.gw)]
    /\ UNCHANGED <<session, conversation_history, appended, asked_about, last>>

GenerateNext == CallGenerate

GenerateSpec == GenerateInit /\ [][GenerateNext]_vars

-----------------------------------------------------------------------------
(* AIAssistant.evaluate_user_answer called directly, for replies of up to  *)
(* MaxReplyLines lines.                                                    *)

MaxReplyLines == 3

\* the lines a reply of the service is made of
EvaluationLines ==
    { "Evaluation: Correct", "Feedback: Good job", "Score: 9", "Score: nine",
      " Score: 3", "Score:-3 ", "evaluation: Incorrect",
      "Feedback: see Feedback: above" }

RECURSIVE JoinLines(_)
JoinLines(lines) ==
    IF Len(lines) = 1 THEN lines[1]
    ELSE lines[1] \o "\n" \o JoinLines(Tail(lines))

RepliesOf(lines) ==
    { JoinLines(ls) : ls \in UNION { [1..k -> lines] : k \in 1..MaxReplyLines } }

EvaluateCalls ==
    { [fn |-> "evaluate_user_answer", text |-> TextPlain, n |-> 0,
       gw |-> GatewayReplies(reply), done |-> FALSE, out |-> NoOut] :
      reply \in RepliesOf(EvaluationLines) }

EvaluateInit == InitSession /\ call \in EvaluateCalls

CallEvaluate ==
    /\ call.fn = "evaluate_user_answer"
    /\ ~call.done
    /\ call' = [call EXCEPT
                  !.done = TRUE,
                  !.out = evaluate_user_answer("What improves accuracy?",
                                               "Retrieval does.", "Retrieval",
                                               call.text, call.gw)]
    /\ UNCHANGED <<session, conversation_history, appended, asked_about, last>>

EvaluateNext == CallEvaluate

EvaluateSpec == EvaluateInit /\ [][EvaluateNext]_vars

-----------------------------------------------------------------------------
(* AIAssistant.answer_question called directly, for replies with and       *)
(* without a justification marker.                                         *)

AnswerTexts == {"", "Retrieval.", "Retrieval improves accuracy.\n", "  It does. "}
JustificationMarkers == {"", "Justification:", "JUSTIFICATION:", "justification:"}
JustificationTexts ==
    {"", " Section 2.", " Section 2 gives the method.\n",
     " See above. Justification: Section 2."}

AnswerCalls ==
    { [fn |-> "answer_question", text |-> TextPlain, n |-> 0,
       gw |-> GatewayReplies(a \o m \o j), done |-> FALSE, out |-> NoOut] :
      a \in AnswerTexts, m \in JustificationMarkers, j \in JustificationTexts }

AnswerInit == InitSession /\ call \in AnswerCalls

CallAnswer ==
    /\ call.fn = "answer_question"
    /\ ~call.done
    /\ call' = [call EXCEPT
                  !.done = TRUE,
                  !.out = answer_question("What improves accuracy?", call.text,
                                          <<>>, call.gw)]
    /\ UNCHANGED <<session, conversation_history, appended, asked_about, last>>

AnswerNext == CallAnswer

AnswerSpec == AnswerInit /\ [][AnswerNext]_vars

-----------------------------------------------------------------------------
(* AIAssistant.truncate_text called directly with small ceilings, and the  *)
(* four flows called on a document longer than their ceilings.             *)

MaxCeiling == 8

RECURSIVE Repeat(_, _)
Repeat(s, n) == IF n = 0 THEN "" ELSE s \o Repeat(s, n - 1)

\* a document of 2600 characters: 26 numbered paragraphs of 100
TextBlock ==
    "Retrieval improves accuracy on the benchmark; section 2 gives the method in detail. 0123456789abcdef"
TextLong == Repeat(TextBlock, 26)

TruncateTexts ==
    {"", "ab", "a b c", "Section 2.", "tokens", "Retrieval", SpecialToken,
     "x" \o SpecialToken}

FlowNames ==
    {"generate_summary", "answer_question", "evaluate_user_answer",
     "generate_challenge_questions"}

TruncateCalls ==
    { [fn |-> "truncate_text", text |-> t, n |-> k, gw |-> NoGateway,
       done |-> FALSE, out |-> NoOut] : t \in TruncateTexts, k \in 0..MaxCeiling }
    \cup
    { [fn |-> f, text |-> t, n |-> 3, gw |-> GatewayReplies("ok"),
       done |-> FALSE, out |-> NoOut] : f \in FlowNames, t \in {TextPlain, TextLong} }

TruncateInit == InitSession /\ call \in TruncateCalls

\* the call made: truncate_text itself, or one of the flows
called(fn, text, n, gw) ==
    CASE fn = "truncate_text" ->
             Out(truncate_text(text, n), 0, NoPrompt, "truncate_text", "")
      [] fn = "generate_summary" -> generate_summary(text, gw)
      [] fn = "answer_question" ->
             answer_question("What improves accuracy?", text, <<>>, gw)
      [] fn = "evaluate_user_answer" ->
             evaluate_user_answer("What improves accuracy?", "Retrieval does.",
                                  "Retrieval", text, gw)
      [] OTHER -> generate_challenge_questions(text, n, gw)

CallTruncate ==
    /\ call.fn \in FlowNames \cup {"truncate_text"}
    /\ ~call.done
    /\ call' = [call EXCEPT !.done = TRUE,
                            !.out = called(call.fn, call.text, call.n, call.gw)]
    /\ UNCHANGED <<session, conversation_history, appended, asked_about, last>>

TruncateNext == CallTruncate

TruncateSpec == TruncateInit /\ [][TruncateNext]_vars

-----------------------------------------------------------------------------
(* Properties.                                                             *)

FlowRan == last.out.path # "none"
GatewayFailed == last.out.requests = 1 /\ ~last.gw.ok
TokenizerFailed == FlowRan /\ encode(document_text).raised

\* C1 (HistorySpec): after any sequence of add_to_conversation_history and
\* clear_conversation_history calls the history holds at most 10 entries, and
\* they are the last min(10, k) of the k entries appended since the last clear,
\* in append order.
C1_HistoryIsLastTen ==
    /\ Len(conversation_history) <= 10
    /\ Len(conversation_history) = Min(10, Len(appended))
    /\ \A i \in 1..Len(conversation_history) :
          conversation_history[i] =
              appended[Len(appended) - Len(conversation_history) + i]

\* e1..e11 were appended to an empty history, which now is e2..e11
C1_Witness ==
    /\ Len(appended) = 11
    /\ conversation_history = SubSeq(appended, 2, 11)
    /\ appended[1] # appended[2]

\* C2 (Spec), as the claim states it: a "Get Answer" whose gateway call failed
\* leaves the conversation history as it was.
C2_FailedAnswerLeavesHistory ==
    (last.action = "get_answer" /\ GatewayFailed)
        => conversation_history = last.passed

\* C3 (Spec): after a successful "Process Document" and after "Clear Document"
\* the history is empty; every history entry was asked about the active
\* document, and so was every entry handed to the answer flow.
C3_HistoryOfActiveDocument ==
    /\ last.action \in {"process_document", "clear_document"}
          => conversation_history = <<>>
    /\ Len(asked_about) = Len(conversation_history)
    /\ \A i \in 1..Len(asked_about) : asked_about[i] = document_text
    /\ last.action = "get_answer"
          => /\ Len(last.passed_about) = Len(last.passed)
             /\ \A i \in 1..Len(last.passed_about) :
                   last.passed_about[i] = document_text

\* a document replaced another one whose history held entries
C3_Witness ==
    /\ last.action = "process_document"
    /\ last.cleared > 0
    /\ document_text # ""
    /\ conversation_history = <<>>

\* the context an answer prompt holds for the history handed in
ExpectedContext(history) ==
    IF Len(history) = 0 THEN ""
    ELSE "\n\nPrevious conversation:\n"
         \o FormatEntries([i \in 1..Min(3, Len(history)) |->
                              history[Len(history) - Min(3, Len(history)) + i]])

\* C4 (Spec): the context of an answer prompt is the last min(3, n) entries of
\* the history handed in, oldest first, and that history is the session's as it
\* was before the current question was appended.
C4_ContextIsLastThree ==
    (last.action = "get_answer" /\ last.out.prompt.task = "answer")
        => /\ last.out.prompt.context = ExpectedContext(last.passed)
           /\ ~last.out.raised
           /\ Len(last.passed) < 10
                 => conversation_history =
                        Append(last.passed,
                               Entry(last.out.prompt.question, last.out.value[1]))

\* a question asked with four different exchanges in the history
C4_Witness ==
    /\ last.action = "get_answer"
    /\ last.out.prompt.task = "answer"
    /\ Len(last.passed) = 4
    /\ last.passed[1] # last.passed[4]

\* C5 (Spec): when the gateway call of the summary, answer or evaluation flow
\* fails, the flow returns its error value (a string, a pair, a triple with
\* score 0) built from the failure's message, and raises nothing.
C5_GatewayFailureReturnsErrorValue ==
    (GatewayFailed /\ last.action \in {"process_document", "get_answer", "submit_answer"})
        => /\ ~last.out.raised
           /\ last.action = "process_document"
                 => /\ last.out.value = "Error generating summary: " \o last.gw.error
                    /\ summary = last.out.value
           /\ last.action = "get_answer"
                 => last.out.value =
                        <<"Error answering question: " \o last.gw.error, "">>
           /\ last.action = "submit_answer"
                 => last.out.value =
                        <<"Error", "Error evaluating answer: " \o last.gw.error, 0>>

\* an answer was submitted and the evaluation's gateway call failed
C5_Witness ==
    /\ last.action = "submit_answer"
    /\ GatewayFailed
    /\ last.out.value[3] = 0

\* C6 (Spec), as the claim states it: a tokenizer error in truncate_text reaches
\* the flow's caller as an error, in every flow, and no gateway request is sent.
C6_TokenizerErrorPropagates ==
    TokenizerFailed => (last.out.raised /\ last.out.requests = 0)

\* C7 (GenerateSpec), as the claim states it: when a request was sent, the
\* fallback set is returned if and only if the gateway call failed; a reply,
\* whatever its content, is parsed as JSON or manually and nothing is shown.
C7_FallbackOnlyOnGatewayFailure ==
    (call.done /\ call.out.requests = 1)
        => /\ (call.out.path = "fallback") <=> ~call.gw.ok
           /\ call.gw.ok => /\ call.out.path \in {"json", "manual"}
                            /\ call.out.shown = ""

\* C8 (Spec), as the claim states it: every question held by the session
\* passes the validation gate (question longer than 10, expected answer
\* longer than 5).
C8_SessionQuestionsPassGate ==
    \A i \in 1..Len(challenge_questions) :
        /\ Len(challenge_questions[i].question) > 10
        /\ Len(challenge_questions[i].expected_answer) > 5

\* C9 (GenerateSpec): for every requested count n >= 0 and every outcome,
\* generate_challenge_questions returns at most n questions, and exactly
\* min(n, 3) on the fallback path.
C9_AtMostRequested ==
    call.done
        => /\ ~call.out.raised
           /\ Len(call.out.value) <= call.n
           /\ call.out.path = "fallback"
                 => Len(call.out.value) = (IF call.n < 3 THEN call.n ELSE 3)

\* a reply with four usable questions, cut to the two requested
C9_Witness ==
    /\ call.done
    /\ call.n = 2
    /\ call.out.path = "json"
    /\ Len(call.out.value) = 2

\* C10 (GenerateSpec): when the gateway call fails, the caller receives the
\* first min(n, 3) fallback questions in their fixed order, difficulties Easy,
\* Medium, Hard and types comprehension, analysis, inference, whatever the
\* document.
C10_GatewayFailureGivesFallbackSet ==
    (call.done /\ call.out.requests = 1 /\ ~call.gw.ok)
        => /\ ~call.out.raised
           /\ Len(call.out.value) = (IF call.n < 3 THEN call.n ELSE 3)
           /\ \A i \in 1..Len(call.out.value) :
                 /\ call.out.value[i] = fallback_questions[i]
                 /\ call.out.value[i].difficulty = <<"Easy", "Medium", "Hard">>[i]
                 /\ call.out.value[i].type =
                        <<"comprehension", "analysis", "inference">>[i]

\* four questions were requested, the gateway call failed, three came back
C10_Witness ==
    /\ call.done
    /\ call.out.requests = 1
    /\ ~call.gw.ok
    /\ call.n = 4
    /\ Len(call.out.value) = 3
    /\ call.text = TextSurvey

\* the actions that run no flow
NoFlowActions ==
    {"start", "process_document_failed", "clear_document", "ask_anything",
     "back_to_ask_anything", "skip_question", "next_question"}

\* C11 (Spec): every user action sends at most one gateway request; mode
\* switches, "Skip Question", "Next Question", "Clear Document" and a failed
\* "Process Document" send none, and "Challenge Me" with a non-empty cached
\* question set sends none and keeps the set.
C11_AtMostOneRequestPerAction ==
    /\ [](/\ last.out.requests \in {0, 1}
          /\ last.action \in NoFlowActions => last.out.requests = 0)
    /\ [][(last'.action = "challenge_me" /\ challenge_questions # <<>>)
             => /\ last'.out.requests = 0
                /\ challenge_questions' = challenge_questions]_vars

\* "Challenge Me" was clicked over a cached question set: no request was sent
C11_Witness ==
    /\ last.action = "challenge_me"
    /\ last.out.requests = 0
    /\ last.out.path = "none"
    /\ challenge_questions # <<>>

\* the lines of a reply as the flow reads it
ReplyLines(content) == Split(Strip(content), "\n")

\* the last line starting with the prefix, 0 when there is none
LastLineWith(lines, prefix) ==
    IF \E i \in 1..Len(lines) : StartsWith(lines[i], prefix)
    THEN CHOOSE i \in 1..Len(lines) :
            /\ StartsWith(lines[i], prefix)
            /\ \A j \in (i + 1)..Len(lines) : ~StartsWith(lines[j], prefix)
    ELSE 0

\* the line without the prefix text, trimmed
FieldOf(line, prefix) == Strip(Remove(line, prefix))

\* C12 (EvaluateSpec): for every reply text the evaluation flow returns a
\* triple and raises nothing; each field comes from the last line that starts
\* exactly with its prefix, a field without such a line keeps its default
\* ("Partially Correct", the whole reply, 5), and a "Score:" line whose value
\* is not an integer gives 5.
C12_EvaluationParsed ==
    call.done
        => /\ ~call.out.raised
           /\ call.out.value[1] =
                 (IF LastLineWith(ReplyLines(call.gw.content), "Evaluation:") = 0
                  THEN "Partially Correct"
                  ELSE FieldOf(ReplyLines(call.gw.content)[
                                   LastLineWith(ReplyLines(call.gw.content), "Evaluation:")],
                               "Evaluation:"))
           /\ call.out.value[2] =
                 (IF LastLineWith(ReplyLines(call.gw.content), "Feedback:") = 0
                  THEN Strip(call.gw.content)
                  ELSE FieldOf(ReplyLines(call.gw.content)[
                                   LastLineWith(ReplyLines(call.gw.content), "Feedback:")],
                               "Feedback:"))
           /\ call.out.value[3] =
                 (IF LastLineWith(ReplyLines(call.gw.content), "Score:") = 0
                  THEN 5
                  ELSE IF int(FieldOf(ReplyLines(call.gw.content)[
                                   LastLineWith(ReplyLines(call.gw.content), "Score:")],
                               "Score:")).raised
                  THEN 5
                  ELSE int(FieldOf(ReplyLines(call.gw.content)[
                                   LastLineWith(ReplyLines(call.gw.content), "Score:")],
                               "Score:")).value)

\* a reply whose only score line is not an integer and that has no evaluation line
C12_Witness ==
    /\ call.done
    /\ call.gw.content = "Feedback: Good job\nScore: nine\n Score: 3"
    /\ call.out.value = <<"Partially Correct", "Good job", 5>>

GenericJustifications ==
    { "Based on the document content provided.",
      "Response is grounded in the document content." }

\* the reply split at position i of the marker, found in any letter case
SplitAtMarker(reply, i, value) ==
    IF /\ i # 0
       /\ Strip(SubSeq(reply, 1, i - 1)) # ""
       /\ Strip(SubSeq(reply, i + Len("justification:"), Len(reply))) # ""
    THEN value = << Strip(SubSeq(reply, 1, i - 1)),
                    Strip(SubSeq(reply, i + Len("justification:"), Len(reply))) >>
    ELSE value[1] = reply /\ value[2] \in GenericJustifications

\* C13 (AnswerSpec), as the claim states it: a reply holding the marker
\* "Justification:" in any letter case, with text on both sides, is split into
\* the text before and the text after the marker; every other reply is returned
\* whole with a generic justification; a non-empty reply never gives an empty
\* answer.
C13_SplitCaseInsensitive ==
    call.done
        => /\ ~call.out.raised
           /\ SplitAtMarker(Strip(call.gw.content),
                            Find(Lower(Strip(call.gw.content)), "justification:"),
                            call.out.value)
           /\ Strip(call.gw.content) # "" => call.out.value[1] # ""

\* text is the given text cut to its first k tokens, or the text itself when
\* it has no more than k
FirstTokensOf(result, text, k) ==
    IF Len(encode(text).value) <= k
    THEN result = text
    ELSE /\ result = decode(SubSeq(encode(text).value, 1, k))
         /\ result = SubSeq(text, 1, Len(result))
         /\ Len(encode(result).value) = k
         /\ result # text

\* the ceiling each flow passes
CeilingOf(fn) ==
    CASE fn = "generate_summary" -> 2500
      [] fn = "answer_question" -> 2500
      [] fn = "evaluate_user_answer" -> 2000
      [] fn = "generate_challenge_questions" -> 2500

\* C15 (TruncateSpec): truncate_text returns a text of at most k tokens
\* unchanged, and otherwise the decoding of exactly the first k tokens, a
\* leading part of the text; the prompt of each flow holds the document cut
\* that way with the flow's ceiling (2500, 2500, 2000, 2500).
C15_TruncateKeepsFirstTokens ==
    (call.done /\ ~encode(call.text).raised)
        => /\ ~call.out.raised
           /\ call.fn = "truncate_text"
                 => FirstTokensOf(call.out.value, call.text, call.n)
           /\ call.fn \in FlowNames
                 => /\ call.out.prompt.task # "none"
                    /\ call.out.requests = 1
                    /\ FirstTokensOf(call.out.prompt.document, call.text,
                                     CeilingOf(call.fn))

\* the evaluation flow was given 2600 tokens and its prompt holds the first 2000
C15_Witness ==
    /\ call.done
    /\ call.fn = "evaluate_user_answer"
    /\ Len(encode(call.text).value) = 2600
    /\ Len(call.out.prompt.document) = 2000
    /\ call.out.prompt.document = SubSeq(call.text, 1, 2000)

\* the call sent its request and the service replied
ReplyReceived == call.done /\ call.out.requests = 1 /\ call.gw.ok

\* the reply's text from its first "[" to its last "]", as json.loads reads it
ReplyArray(content) == json_loads(json_text_of(Strip(content)))

HoldsRequiredKeys(v) ==
    /\ v.t = "object"
    /\ {"question", "expected_answer", "difficulty"} \subseteq DOMAIN v.f

\* a field of an object, a string trimmed; the default when the key is absent
TrimmedField(v, key, default) ==
    IF key \notin DOMAIN v.f THEN default
    ELSE IF v.f[key].t = "string" THEN Strip(v.f[key].s)
    ELSE v.f[key]

RECURSIVE TrimmedQuestions(_)
TrimmedQuestions(array) ==
    IF Len(array) = 0 THEN <<>>
    ELSE (IF HoldsRequiredKeys(Head(array))
          THEN << [question |-> TrimmedField(Head(array), "question", ""),
                   expected_answer |-> TrimmedField(Head(array), "expected_answer", ""),
                   difficulty |-> TrimmedField(Head(array), "difficulty", "Medium"),
                   type |-> TrimmedField(Head(array), "type", "comprehension")] >>
          ELSE <<>>)
         \o TrimmedQuestions(Tail(array))

\* C16 (GenerateSpec), as the claim states it: when the reply's text from the
\* first "[" to the last "]" parses as a JSON array, the result is the array's
\* objects holding question, expected_answer and difficulty, in order, their
\* string fields trimmed and type defaulted to "comprehension", cut to the
\* first n; other elements are dropped without affecting the rest.
C16_JsonArrayCleaned ==
    (ReplyReceived /\ ~ReplyArray(call.gw.content).raised)
        => /\ ~call.out.raised
           /\ call.out.path = "json"
           /\ call.out.shown = ""
           /\ call.out.value =
                 FirstN(TrimmedQuestions(ReplyArray(call.gw.content).value), call.n)

IsMarkerLine(line) ==
    \E marker \in {"1.", "2.", "3.", "Question:", "Q:"} :
        StartsWith(Strip(line), marker)

\* one question per marker line, in the order of the lines
MarkerQuestions(lines) ==
    [i \in 1..Len(SelectSeq(lines, IsMarkerLine)) |->
        [question |-> Strip(SelectSeq(lines, IsMarkerLine)[i]),
         expected_answer |-> "Based on document content",
         difficulty |-> "Medium", type |-> "comprehension"]]

\* C17 (GenerateSpec): a reply that holds no JSON is parsed manually: one
\* question per line that, trimmed, starts with "1.", "2.", "3.", "Question:"
\* or "Q:", in the order of the lines, the trimmed line as question and the
\* fixed placeholders for the rest; at most n are returned, none when no line
\* matches.
C17_ManualParse ==
    (ReplyReceived /\ ReplyArray(call.gw.content).raised)
        => /\ ~call.out.raised
           /\ call.out.path = "manual"
           /\ call.out.shown = ""
           /\ Len(call.out.value) <= call.n
           /\ call.out.value =
                 FirstN(MarkerQuestions(Split(Strip(call.gw.content), "\n")), call.n)
           /\ (\A i \in 1..Len(Split(Strip(call.gw.content), "\n")) :
                  ~IsMarkerLine(Split(Strip(call.gw.content), "\n")[i]))
                 => call.out.value = <<>>

\* five marker lines, one of them indented, four questions requested
C17_Witness ==
    /\ call.done
    /\ call.gw.content = QReplyMarkers
    /\ call.n = 4
    /\ Len(call.out.value) = 4
    /\ call.out.value[2].question = "Q: Why does the claim matter?"
    /\ call.out.value[4].question = "Question: What are the limits?"

\* C18 (Spec): in every reachable session state current_question_index is 0
\* while the cached question set is empty and an index into the set otherwise,
\* so challenge mode always has the current question to show and never reaches
\* its "completed all challenge questions" branch.
C18_IndexWithinQuestions ==
    /\ challenge_questions = <<>> => current_question_index = 0
    /\ challenge_questions # <<>>
          => /\ current_question_index >= 0
             /\ current_question_index < Len(challenge_questions)
             /\ current_question_index + 1 \in DOMAIN challenge_questions

\* the last of three questions was reached by "Next Question"
C18_Witness ==
    /\ last.action = "next_question"
    /\ Len(challenge_questions) = 3
    /\ current_question_index = 2
    /\ ~later_question_exists

NonBlankCount(text) ==
    Cardinality({i \in 1..Len(text) : ~IsSpace(Char(text, i))})

UnsupportedOrOversized(f) ==
    \/ ~(\E ext \in {".pdf", ".txt"} :
            /\ Len(f.name) > Len(ext)
            /\ Lower(SubSeq(f.name, Len(f.name) - Len(ext) + 1, Len(f.name))) = ext)
    \/ f.size > 10 * 1024 * 1024

\* the text extracted from a readable file: a one-page PDF's text comes
\* under its page header
ExtractedOf(f) ==
    IF Lower(SubSeq(f.name, Len(f.name) - 3, Len(f.name))) = ".pdf"
    THEN "\n--- Page 1 ---\n" \o f.text
    ELSE f.text

\* the failures as the claim lists them
FailsAsClaimed(f) ==
    \/ UnsupportedOrOversized(f)
    \/ Strip(f.text) = ""
    \/ NonBlankCount(ExtractedOf(f)) < 50

\* the failures by the length of the trimmed extracted text
FailsByTrimmedLength(f) ==
    \/ UnsupportedOrOversized(f)
    \/ Strip(f.text) = ""
    \/ Len(Strip(ExtractedOf(f))) < 50

SessionUnchanged ==
    /\ UNCHANGED <<document_text, document_name, summary, challenge_questions,
                   current_question_index, challenge_mode, question_answered,
                   conversation_history>>
    /\ last'.out.requests = 0

SessionReset(f) ==
    /\ document_text' = ExtractedOf(f)
    /\ Len(document_text') >= 50
    /\ document_name' = f.name
    /\ challenge_questions' = <<>>
    /\ current_question_index' = 0
    /\ challenge_mode' = FALSE
    /\ conversation_history' = <<>>

\* C19 (ProcessSpec), as the claim states it: "Process Document" on a file of an
\* unsupported format, an oversized file, an empty text or a text of fewer
\* than 50 non-blank characters leaves the session unchanged and sends no
\* request; on any other file it stores the text and resets questions, index,
\* mode and history.
C19_FailedProcessByNonBlankCount ==
    [][\A f \in ProcessFiles, gw \in SummaryOutcomes :
          ProcessDocument(f, gw)
              => IF FailsAsClaimed(f) THEN SessionUnchanged ELSE SessionReset(f)]_vars

\* C19 (ProcessSpec), amended: "Process Document" on a file of an unsupported
\* format, an oversized file, an empty text or an extracted text that has
\* fewer than 50 characters once leading and trailing whitespace is removed
\* leaves the session unchanged and sends no request; on any other file it
\* stores the extracted text, of at least 50 characters, and resets
\* questions, index, mode and history.
C19_FailedProcessByTrimmedLength ==
    [][\A f \in ProcessFiles, gw \in SummaryOutcomes :
          ProcessDocument(f, gw)
              => IF FailsByTrimmedLength(f) THEN SessionUnchanged ELSE SessionReset(f)]_vars

\* a file was refused while the session held a document, questions and history
C19_Witness ==
    /\ last.action = "process_document_failed"
    /\ document_text # ""
    /\ challenge_questions # <<>>
    /\ conversation_history # <<>>

====
